---- MODULE Spec2Model ----
(***************************************************************************)
(* edgewise: adjacency-list graph, bfs / dfs / dijkstra and random_graph.  *)
(* Model of src/src/lib.rs.                                                *)
(*                                                                         *)
(* A Graph<W> is Vec<Vec<(u32, W)>>.  Here `graph` is a sequence of        *)
(* adjacency sequences of pairs <<target_node, weight>>; node u (0-based)  *)
(* owns graph[u + 1].  Vec<bool> / Vec<Option<u32>> are sequences indexed  *)
(* the same way.  Option<u32> is <<>> (None) or <<d>> (Some(d)).           *)
(***************************************************************************)
EXTENDS Integers, Sequences, FiniteSets, TLC

\* ------------------------------------------------------------------ bounds
\* Largest node count of the graphs handed to bfs / dfs.
MaxNodes == 4
\* Largest total number of adjacency entries of those graphs.
MaxEdges == 3
\* Largest node count / entry count of the graphs handed to dijkstra.
MaxWNodes == 3
MaxWEdges == 3
\* The distance type's largest value.  The code's is u32::MAX; the model
\* scales the width down (2 bits) and enumerates every weight of the type.
U32_MAX == 3
\* Largest num_nodes given to random_graph.
MaxGenNodes == 3
\* Weighted generation is explored for the (num_nodes, is_directed) pairs
\* whose loop makes at most this many draws.
MaxWeightedDraws == 4
\* Probabilities and draws are multiples of 1 / ProbScale.
ProbScale == 2

\* ------------------------------------------------------- program constants
\* rng.random_range(1..=10)
WeightMin == 1
WeightMax == 10

VARIABLES
    graph,                  \* self.graph
    variant,                \* the weight type W: "Weighted" or "Unweighted"
    pc,                     \* where the caller / the running call is
    calls,                  \* the operations this caller invokes
    starting_node,          \* the argument of bfs / dfs / dijkstra
    nodes_left_to_process,  \* bfs: FIFO frontier; dfs: stack (back = top)
    nodes_visited_lookup,   \* bfs / dfs: Vec<bool>
    nodes_visited,          \* bfs / dfs: Vec<u32>, the result being built
    nodes_distance,         \* dijkstra: Vec<Option<u32>>
    dj_nodes_visited,       \* dijkstra: nodes_visited, Vec<bool> (settled)
    bfs_result,             \* what bfs returned, once it has
    dfs_result,             \* what dfs returned, once it has
    dijkstra_result,        \* what dijkstra returned, once it has
    num_nodes,              \* random_graph arguments
    probability,
    is_directed,
    i,                      \* random_graph loop counters
    j,
    draws                   \* the (i, j) pairs random_graph has drawn for

vars == <<graph, variant, pc, calls, starting_node, nodes_left_to_process,
          nodes_visited_lookup, nodes_visited, nodes_distance,
          dj_nodes_visited, bfs_result, dfs_result, dijkstra_result,
          num_nodes, probability, is_directed, i, j, draws>>

travLocals == <<nodes_left_to_process, nodes_visited_lookup, nodes_visited>>
djLocals == <<nodes_distance, dj_nodes_visited>>
genVars == <<num_nodes, probability, is_directed, i, j, draws>>
results == <<bfs_result, dfs_result, dijkstra_result>>

\* ------------------------------------------------------------ result values
NotCalled == [tag |-> "NotCalled"]
Ok(v) == [tag |-> "Ok", value |-> v]
Err(e) == [tag |-> "Err", error |-> e]
\* An out-of-range index (`v[k]` on a Vec) panics: the call never returns.
Panic == [tag |-> "Panic"]

OutOfBoundsNode(node) == [kind |-> "OutOfBoundsNode", node |-> node]
DistanveOverflow(node_from, node_to, current_distance, edge_weight) ==
    [kind |-> "DistanveOverflow", node_from |-> node_from, node_to |-> node_to,
     current_distance |-> current_distance, edge_weight |-> edge_weight]

None == <<>>
Some(d) == <<d>>

Unit == "Unit"

\* -------------------------------------------------------------- the graph
\* self.graph.len()
NumNodes(g) == Len(g)
\* self.graph.get(u): the adjacency list of u, or <<>> standing for no list
HasNode(g, u) == u < Len(g)
Adj(g, u) == g[u + 1]
Target(e) == e[1]
Weight(e) == e[2]

\* edges(): (source, target, weight) in adjacency-list order
RECURSIVE EdgesFrom(_, _)
EdgesFrom(g, u) ==
    IF u >= Len(g) THEN <<>>
    ELSE [k \in 1..Len(Adj(g, u)) |-> <<u, Target(Adj(g, u)[k]), Weight(Adj(g, u)[k])>>]
         \o EdgesFrom(g, u + 1)

edges(g) == EdgesFrom(g, 0)

\* Graph::new accepts any adjacency list: the caller's graphs are all
\* lists of n nodes with at most maxE entries in total.
FlatSorted(f) == \A k \in 1..(Len(f) - 1) : f[k][1] <= f[k + 1][1]

RECURSIVE Collect(_, _, _)
Collect(f, u, k) ==
    IF k > Len(f) THEN <<>>
    ELSE IF f[k][1] = u THEN <<(<<f[k][2], f[k][3]>>)>> \o Collect(f, u, k + 1)
    ELSE Collect(f, u, k + 1)

GraphNew(n, f) == [u \in 1..n |-> Collect(f, u - 1, 1)]

\* ------------------------------------------------------------------- bfs
\* mutant: the bounds check written with > for >=
StartOutOfBoundsStrict(g, s) == s > NumNodes(g)

\* lines 78-82 (and 104-108, 164-168): the bounds check on the start
StartOutOfBounds(g, s) == s >= NumNodes(g)

\* lines 84-88: visited lookup with only the start marked
InitLookup(g, s) == [k \in 1..NumNodes(g) |-> k = s + 1]

\* mutant: the scan leaves the loop at the first new neighbour, as dfs does
RECURSIVE BfsScanBreak(_, _, _, _, _)
BfsScanBreak(nbrs, k, lookup, visited, queue) ==
    IF k > Len(nbrs)
    THEN [panic |-> FALSE, lookup |-> lookup, visited |-> visited, queue |-> queue]
    ELSE LET n == Target(nbrs[k]) IN
         IF n >= Len(lookup)
         THEN [panic |-> TRUE, lookup |-> lookup, visited |-> visited, queue |-> queue]
         ELSE IF ~lookup[n + 1]
         THEN [panic |-> FALSE, lookup |-> [lookup EXCEPT ![n + 1] = TRUE],
               visited |-> Append(visited, n), queue |-> Append(queue, n)]
         ELSE BfsScanBreak(nbrs, k + 1, lookup, visited, queue)

\* lines 91-97: the scan of one dequeued node's adjacency list, from entry k.
\* nodes_visited_lookup[n as usize] panics when n is out of range.
RECURSIVE BfsScan(_, _, _, _, _)
BfsScan(nbrs, k, lookup, visited, queue) ==
    IF k > Len(nbrs)
    THEN [panic |-> FALSE, lookup |-> lookup, visited |-> visited, queue |-> queue]
    ELSE LET n == Target(nbrs[k]) IN
         IF n >= Len(lookup)
         THEN [panic |-> TRUE, lookup |-> lookup, visited |-> visited, queue |-> queue]
         ELSE IF ~lookup[n + 1]
         THEN BfsScan(nbrs, k + 1, [lookup EXCEPT ![n + 1] = TRUE],
                      Append(visited, n), Append(queue, n))
         ELSE BfsScan(nbrs, k + 1, lookup, visited, queue)

\* mutant: pop_back for pop_front
BfsIterationPopBack(g, lookup, visited, queue) ==
    LET node_to_process == queue[Len(queue)]
        rest == SubSeq(queue, 1, Len(queue) - 1)
    IN
    IF HasNode(g, node_to_process)
    THEN BfsScan(Adj(g, node_to_process), 1, lookup, visited, rest)
    ELSE [panic |-> FALSE, lookup |-> lookup, visited |-> visited, queue |-> rest]

\* lines 89-99: pop_front, then scan (graph.get may find no list)
BfsIteration(g, lookup, visited, queue) ==
    LET node_to_process == Head(queue) IN
    IF HasNode(g, node_to_process)
    THEN BfsScan(Adj(g, node_to_process), 1, lookup, visited, Tail(queue))
    ELSE [panic |-> FALSE, lookup |-> lookup, visited |-> visited, queue |-> Tail(queue)]

BfsCall ==
    /\ pc = "ready"
    /\ "bfs" \in calls
    /\ bfs_result = NotCalled
    /\ IF StartOutOfBounds(graph, starting_node)
       THEN /\ bfs_result' = Err(OutOfBoundsNode(starting_node))
            /\ UNCHANGED <<pc, travLocals>>
       ELSE /\ pc' = "bfs"
            /\ nodes_left_to_process' = <<starting_node>>
            /\ nodes_visited_lookup' = InitLookup(graph, starting_node)
            /\ nodes_visited' = <<starting_node>>
            /\ UNCHANGED bfs_result
    /\ UNCHANGED <<graph, variant, calls, starting_node, djLocals, dfs_result,
                   dijkstra_result, genVars>>

BfsLoop ==
    /\ pc = "bfs"
    /\ nodes_left_to_process # <<>>
    /\ LET r == BfsIteration(graph, nodes_visited_lookup, nodes_visited,
                             nodes_left_to_process) IN
       /\ nodes_visited_lookup' = r.lookup
       /\ nodes_visited' = r.visited
       /\ nodes_left_to_process' = r.queue
       /\ IF r.panic
          THEN pc' = "panicked" /\ bfs_result' = Panic
          ELSE UNCHANGED <<pc, bfs_result>>
    /\ UNCHANGED <<graph, variant, calls, starting_node, djLocals, dfs_result,
                   dijkstra_result, genVars>>

BfsReturn ==
    /\ pc = "bfs"
    /\ nodes_left_to_process = <<>>
    /\ bfs_result' = Ok(nodes_visited)
    /\ pc' = "ready"
    /\ nodes_left_to_process' = <<>>
    /\ nodes_visited_lookup' = <<>>
    /\ nodes_visited' = <<>>
    /\ UNCHANGED <<graph, variant, calls, starting_node, djLocals, dfs_result,
                   dijkstra_result, genVars>>

\* ------------------------------------------------------------------- dfs
\* lines 120-128: the first unvisited neighbour of the top of the stack,
\* scanning from entry k.
RECURSIVE DfsScan(_, _, _)
DfsScan(nbrs, k, lookup) ==
    IF k > Len(nbrs)
    THEN [panic |-> FALSE, found_unvisited |-> FALSE]
    ELSE LET n == Target(nbrs[k]) IN
         IF n >= Len(lookup)
         THEN [panic |-> TRUE, found_unvisited |-> FALSE]
         ELSE IF ~lookup[n + 1]
         THEN [panic |-> FALSE, found_unvisited |-> TRUE, n |-> n]
         ELSE DfsScan(nbrs, k + 1, lookup)

\* mutant: the scan does not test nodes_visited_lookup, the first neighbour is
\* pushed whether or not it was visited
DfsIterationNoLookup(g, lookup, visited, stack) ==
    LET node_to_process == stack[Len(stack)] IN
    IF ~HasNode(g, node_to_process)
    THEN [panic |-> FALSE, lookup |-> lookup, visited |-> visited, stack |-> stack]
    ELSE LET nbrs == Adj(g, node_to_process) IN
         IF nbrs = <<>>
         THEN [panic |-> FALSE, lookup |-> lookup, visited |-> visited,
               stack |-> SubSeq(stack, 1, Len(stack) - 1)]
         ELSE LET n == Target(nbrs[1]) IN
              IF n >= Len(lookup)
              THEN [panic |-> TRUE, lookup |-> lookup, visited |-> visited, stack |-> stack]
              ELSE [panic |-> FALSE, lookup |-> [lookup EXCEPT ![n + 1] = TRUE],
                    visited |-> Append(visited, n), stack |-> Append(stack, n)]

\* mutant: the scan has no `break`, every unvisited neighbour is pushed
DfsIterationNoBreak(g, lookup, visited, stack) ==
    LET node_to_process == stack[Len(stack)] IN
    IF ~HasNode(g, node_to_process)
    THEN [panic |-> FALSE, lookup |-> lookup, visited |-> visited, stack |-> stack]
    ELSE LET r == BfsScan(Adj(g, node_to_process), 1, lookup, visited, stack) IN
         IF r.panic
         THEN [panic |-> TRUE, lookup |-> lookup, visited |-> visited, stack |-> stack]
         ELSE IF r.visited # visited
         THEN [panic |-> FALSE, lookup |-> r.lookup, visited |-> r.visited,
               stack |-> r.queue]
         ELSE [panic |-> FALSE, lookup |-> lookup, visited |-> visited,
               stack |-> SubSeq(stack, 1, Len(stack) - 1)]

\* lines 116-132: one iteration of the while loop
DfsIteration(g, lookup, visited, stack) ==
    LET node_to_process == stack[Len(stack)] IN
    IF ~HasNode(g, node_to_process)
    THEN [panic |-> FALSE, lookup |-> lookup, visited |-> visited, stack |-> stack]
    ELSE LET s == DfsScan(Adj(g, node_to_process), 1, lookup) IN
         IF s.panic
         THEN [panic |-> TRUE, lookup |-> lookup, visited |-> visited, stack |-> stack]
         ELSE IF s.found_unvisited
         THEN [panic |-> FALSE, lookup |-> [lookup EXCEPT ![s.n + 1] = TRUE],
               visited |-> Append(visited, s.n), stack |-> Append(stack, s.n)]
         ELSE [panic |-> FALSE, lookup |-> lookup, visited |-> visited,
               stack |-> SubSeq(stack, 1, Len(stack) - 1)]

DfsCall ==
    /\ pc = "ready"
    /\ "dfs" \in calls
    /\ dfs_result = NotCalled
    /\ IF StartOutOfBounds(graph, starting_node)
       THEN /\ dfs_result' = Err(OutOfBoundsNode(starting_node))
            /\ UNCHANGED <<pc, travLocals>>
       ELSE /\ pc' = "dfs"
            /\ nodes_left_to_process' = <<starting_node>>
            /\ nodes_visited_lookup' = InitLookup(graph, starting_node)
            /\ nodes_visited' = <<starting_node>>
            /\ UNCHANGED dfs_result
    /\ UNCHANGED <<graph, variant, calls, starting_node, djLocals, bfs_result,
                   dijkstra_result, genVars>>

DfsLoop ==
    /\ pc = "dfs"
    /\ nodes_left_to_process # <<>>
    /\ LET r == DfsIteration(graph, nodes_visited_lookup, nodes_visited,
                             nodes_left_to_process) IN
       /\ nodes_visited_lookup' = r.lookup
       /\ nodes_visited' = r.visited
       /\ nodes_left_to_process' = r.stack
       /\ IF r.panic
          THEN pc' = "panicked" /\ dfs_result' = Panic
          ELSE UNCHANGED <<pc, dfs_result>>
    /\ UNCHANGED <<graph, variant, calls, starting_node, djLocals, bfs_result,
                   dijkstra_result, genVars>>

DfsReturn ==
    /\ pc = "dfs"
    /\ nodes_left_to_process = <<>>
    /\ dfs_result' = Ok(nodes_visited)
    /\ pc' = "ready"
    /\ nodes_left_to_process' = <<>>
    /\ nodes_visited_lookup' = <<>>
    /\ nodes_visited' = <<>>
    /\ UNCHANGED <<graph, variant, calls, starting_node, djLocals, bfs_result,
                   dijkstra_result, genVars>>

\* The caller of bfs / dfs: a graph of unweighted edges (the traversals never
\* read the weight) and any start, in range or not.
InitTraverse ==
    \E n \in 0..MaxNodes : \E e \in 0..MaxEdges :
    \E f \in [1..e -> (0..(n - 1)) \X (0..n) \X {Unit}] :
        /\ FlatSorted(f)
        /\ graph = GraphNew(n, f)
        /\ variant = "Unweighted"
        /\ pc = "ready"
        /\ calls = {"bfs", "dfs"}
        /\ starting_node \in 0..MaxNodes
        /\ nodes_left_to_process = <<>>
        /\ nodes_visited_lookup = <<>>
        /\ nodes_visited = <<>>
        /\ nodes_distance = <<>>
        /\ dj_nodes_visited = <<>>
        /\ bfs_result = NotCalled
        /\ dfs_result = NotCalled
        /\ dijkstra_result = NotCalled
        /\ num_nodes = 0
        /\ probability = 0
        /\ is_directed = FALSE
        /\ i = 0
        /\ j = 0
        /\ draws = <<>>

NextTraverse == BfsCall \/ BfsLoop \/ BfsReturn \/ DfsCall \/ DfsLoop \/ DfsReturn

SpecTraverse == InitTraverse /\ [][NextTraverse]_vars

\* -------------------------------------------------------------- dijkstra
\* mutant: wrapping_add for checked_add
wrapping_add(a, b) == Some((a + b) % (U32_MAX + 1))

\* u32::checked_add
checked_add(a, b) == IF a + b > U32_MAX THEN None ELSE Some(a + b)

\* lines 172-175: the unvisited nodes that have a distance
Candidates(dist, visited) ==
    {k \in 0..(Len(visited) - 1) : ~visited[k + 1] /\ dist[k + 1] # None}

\* min_by_key(|&(_, d)| d): the first of the minimal elements
MinByKey(dist, cands) ==
    CHOOSE k \in cands :
        \A m \in cands : \/ dist[k + 1][1] < dist[m + 1][1]
                         \/ dist[k + 1][1] = dist[m + 1][1] /\ k <= m

\* mutant: a distance, once set, is never improved
RECURSIVE RelaxScanNoImprove(_, _, _, _, _)
RelaxScanNoImprove(neighbors, k, current_node, current_distance, dist) ==
    IF k > Len(neighbors)
    THEN [tag |-> "Done", dist |-> dist]
    ELSE LET neighbor_node == Target(neighbors[k])
             neighbor_weight == Weight(neighbors[k])
             new_distance == checked_add(current_distance, neighbor_weight)
         IN
         IF new_distance = None
         THEN [tag |-> "Err", dist |-> dist,
               error |-> DistanveOverflow(current_node, neighbor_node,
                                          current_distance, neighbor_weight)]
         ELSE IF neighbor_node >= Len(dist)
         THEN [tag |-> "Panic", dist |-> dist]
         ELSE IF dist[neighbor_node + 1] # None
         THEN RelaxScanNoImprove(neighbors, k + 1, current_node, current_distance, dist)
         ELSE RelaxScanNoImprove(neighbors, k + 1, current_node, current_distance,
                                 [dist EXCEPT ![neighbor_node + 1] = new_distance])

\* mutant: the sum is only formed for a neighbour that is not already at
\* least as close as current_node, so an overflow towards such a node goes
\* unnoticed
RECURSIVE RelaxScanSkipCloser(_, _, _, _, _)
RelaxScanSkipCloser(neighbors, k, current_node, current_distance, dist) ==
    IF k > Len(neighbors)
    THEN [tag |-> "Done", dist |-> dist]
    ELSE LET neighbor_node == Target(neighbors[k])
             neighbor_weight == Weight(neighbors[k])
             new_distance == checked_add(current_distance, neighbor_weight)
         IN
         IF neighbor_node >= Len(dist)
         THEN [tag |-> "Panic", dist |-> dist]
         ELSE IF /\ dist[neighbor_node + 1] # None
                 /\ dist[neighbor_node + 1][1] <= current_distance
         THEN RelaxScanSkipCloser(neighbors, k + 1, current_node, current_distance, dist)
         ELSE IF new_distance = None
         THEN [tag |-> "Err", dist |-> dist,
               error |-> DistanveOverflow(current_node, neighbor_node,
                                          current_distance, neighbor_weight)]
         ELSE IF dist[neighbor_node + 1] # None
         THEN IF new_distance[1] < dist[neighbor_node + 1][1]
              THEN RelaxScanSkipCloser(neighbors, k + 1, current_node, current_distance,
                                       [dist EXCEPT ![neighbor_node + 1] = new_distance])
              ELSE RelaxScanSkipCloser(neighbors, k + 1, current_node, current_distance,
                                       dist)
         ELSE RelaxScanSkipCloser(neighbors, k + 1, current_node, current_distance,
                                  [dist EXCEPT ![neighbor_node + 1] = new_distance])

\* lines 178-196: relax the entries of current_node from entry k on
RECURSIVE RelaxScan(_, _, _, _, _)
RelaxScan(neighbors, k, current_node, current_distance, dist) ==
    IF k > Len(neighbors)
    THEN [tag |-> "Done", dist |-> dist]
    ELSE LET neighbor_node == Target(neighbors[k])
             neighbor_weight == Weight(neighbors[k])
             new_distance == checked_add(current_distance, neighbor_weight)
         IN
         IF new_distance = None
         THEN [tag |-> "Err", dist |-> dist,
               error |-> DistanveOverflow(current_node, neighbor_node,
                                          current_distance, neighbor_weight)]
         ELSE IF neighbor_node >= Len(dist)
         THEN [tag |-> "Panic", dist |-> dist]
         ELSE IF dist[neighbor_node + 1] # None
         THEN IF new_distance[1] < dist[neighbor_node + 1][1]
              THEN RelaxScan(neighbors, k + 1, current_node, current_distance,
                             [dist EXCEPT ![neighbor_node + 1] = new_distance])
              ELSE RelaxScan(neighbors, k + 1, current_node, current_distance, dist)
         ELSE RelaxScan(neighbors, k + 1, current_node, current_distance,
                        [dist EXCEPT ![neighbor_node + 1] = new_distance])

\* lines 177-198: the body of the while loop for the selected node
DijkstraIteration(g, current_node, dist) ==
    IF HasNode(g, current_node)
    THEN RelaxScan(Adj(g, current_node), 1, current_node, dist[current_node + 1][1], dist)
    ELSE [tag |-> "Done", dist |-> dist]

DijkstraCall ==
    /\ pc = "ready"
    /\ "dijkstra" \in calls
    /\ variant = "Weighted"
    /\ dijkstra_result = NotCalled
    /\ IF StartOutOfBounds(graph, starting_node)
       THEN /\ dijkstra_result' = Err(OutOfBoundsNode(starting_node))
            /\ UNCHANGED <<pc, djLocals>>
       ELSE /\ pc' = "dijkstra"
            /\ nodes_distance' = [k \in 1..NumNodes(graph) |->
                                    IF k = starting_node + 1 THEN Some(0) ELSE None]
            /\ dj_nodes_visited' = [k \in 1..NumNodes(graph) |-> FALSE]
            /\ UNCHANGED dijkstra_result
    /\ UNCHANGED <<graph, variant, calls, starting_node, travLocals, bfs_result,
                   dfs_result, genVars>>

DijkstraLoop ==
    /\ pc = "dijkstra"
    /\ Candidates(nodes_distance, dj_nodes_visited) # {}
    /\ LET current_node == MinByKey(nodes_distance,
                                    Candidates(nodes_distance, dj_nodes_visited))
           r == DijkstraIteration(graph, current_node, nodes_distance)
       IN
       /\ nodes_distance' = r.dist
       /\ CASE r.tag = "Done" ->
                 /\ dj_nodes_visited' = [dj_nodes_visited EXCEPT ![current_node + 1] = TRUE]
                 /\ UNCHANGED <<pc, dijkstra_result>>
            [] r.tag = "Err" ->
                 /\ dijkstra_result' = Err(r.error)
                 /\ pc' = "ready"
                 /\ UNCHANGED dj_nodes_visited
            [] r.tag = "Panic" ->
                 /\ dijkstra_result' = Panic
                 /\ pc' = "panicked"
                 /\ UNCHANGED dj_nodes_visited
    /\ UNCHANGED <<graph, variant, calls, starting_node, travLocals, bfs_result,
                   dfs_result, genVars>>

DijkstraReturn ==
    /\ pc = "dijkstra"
    /\ Candidates(nodes_distance, dj_nodes_visited) = {}
    /\ dijkstra_result' = Ok(nodes_distance)
    /\ pc' = "ready"
    /\ UNCHANGED <<graph, variant, calls, starting_node, travLocals, djLocals,
                   bfs_result, dfs_result, genVars>>

\* The caller of dijkstra: a Graph<Weighted> with any weights of the
\* distance type and any start, in range or not.
InitDijkstra ==
    \E n \in 0..MaxWNodes : \E e \in 0..MaxWEdges :
    \E f \in [1..e -> (0..(n - 1)) \X (0..n) \X (0..U32_MAX)] :
        /\ FlatSorted(f)
        /\ graph = GraphNew(n, f)
        /\ variant = "Weighted"
        /\ pc = "ready"
        /\ calls = {"dijkstra"}
        /\ starting_node \in 0..MaxWNodes
        /\ nodes_left_to_process = <<>>
        /\ nodes_visited_lookup = <<>>
        /\ nodes_visited = <<>>
        /\ nodes_distance = <<>>
        /\ dj_nodes_visited = <<>>
        /\ bfs_result = NotCalled
        /\ dfs_result = NotCalled
        /\ dijkstra_result = NotCalled
        /\ num_nodes = 0
        /\ probability = 0
        /\ is_directed = FALSE
        /\ i = 0
        /\ j = 0
        /\ draws = <<>>

NextDijkstra == DijkstraCall \/ DijkstraLoop \/ DijkstraReturn

SpecDijkstra == InitDijkstra /\ [][NextDijkstra]_vars

\* ---------------------------------------------------------- random_graph
\* mutant: random_range(0..=10)
WeightRangeFromZero == 0..WeightMax

\* line 239: the weights rng.random_range(1..=10) can return
WeightRange == WeightMin..WeightMax

\* mutant: the mirrored edge of an undirected pair is not inserted
InsertEdgeOneWay(g, w, ii, jj, directed) ==
    IF ~HasNode(g, ii)
    THEN [panic |-> TRUE, graph |-> g]
    ELSE [panic |-> FALSE, graph |-> [g EXCEPT ![ii + 1] = Append(@, <<jj, w>>)]]

\* lines 208-253: W::insert_edge with the weight w it drew (Unit for
\* Unweighted).  get_mut(..).unwrap_or_else(panic) on i, then on j.
InsertEdge(g, w, ii, jj, directed) ==
    IF ~HasNode(g, ii)
    THEN [panic |-> TRUE, graph |-> g]
    ELSE LET g1 == [g EXCEPT ![ii + 1] = Append(@, <<jj, w>>)] IN
         IF directed
         THEN [panic |-> FALSE, graph |-> g1]
         ELSE IF ~HasNode(g1, jj)
         THEN [panic |-> TRUE, graph |-> g1]
         ELSE [panic |-> FALSE,
               graph |-> [g1 EXCEPT ![jj + 1] = Append(@, <<ii, w>>)]]

\* line 150: where the inner loop over j starts
InnerStart(ii, directed) == IF directed THEN 0 ELSE ii + 1

\* the weights insert_edge can draw for the variant
WeightDraws(v) == IF v = "Weighted" THEN WeightRange ELSE {Unit}

\* lines 152-155: one iteration of the inner loop, for the pair (i, j)
RandomGraphDraw ==
    /\ pc = "random_graph"
    /\ i < num_nodes
    /\ j < num_nodes
    /\ \E r \in 0..(ProbScale - 1) :
          IF r < probability
          THEN \E w \in WeightDraws(variant) :
                 LET res == InsertEdge(graph, w, i, j, is_directed) IN
                 /\ graph' = res.graph
                 /\ pc' = IF res.panic THEN "panicked" ELSE pc
          ELSE UNCHANGED <<graph, pc>>
    /\ draws' = Append(draws, <<i, j>>)
    /\ j' = j + 1
    /\ UNCHANGED <<variant, calls, starting_node, travLocals, djLocals, results,
                   num_nodes, probability, is_directed, i>>

\* lines 149-151: the inner loop is over, the outer loop moves on
RandomGraphNextI ==
    /\ pc = "random_graph"
    /\ i < num_nodes
    /\ j >= num_nodes
    /\ i' = i + 1
    /\ j' = InnerStart(i + 1, is_directed)
    /\ UNCHANGED <<graph, variant, pc, calls, starting_node, travLocals, djLocals,
                   results, num_nodes, probability, is_directed, draws>>

\* line 158: the outer loop is over
RandomGraphReturn ==
    /\ pc = "random_graph"
    /\ i >= num_nodes
    /\ pc' = "generated"
    /\ UNCHANGED <<graph, variant, calls, starting_node, travLocals, djLocals,
                   results, genVars>>

\* the number of (i, j) pairs the loops of lines 149-157 visit
NumDraws(n, directed) == IF directed THEN n * n ELSE (n * (n - 1)) \div 2

\* lines 145-148: random_graph has built the n empty adjacency lists and is
\* about to enter its loops.
InitRandom ==
    \E n \in 0..MaxGenNodes : \E p \in 0..ProbScale : \E d \in BOOLEAN :
    \E v \in {"Weighted", "Unweighted"} :
        /\ v = "Weighted" => NumDraws(n, d) <= MaxWeightedDraws
        /\ graph = [u \in 1..n |-> <<>>]
        /\ variant = v
        /\ pc = "random_graph"
        /\ calls = {"random_graph"}
        /\ starting_node = 0
        /\ nodes_left_to_process = <<>>
        /\ nodes_visited_lookup = <<>>
        /\ nodes_visited = <<>>
        /\ nodes_distance = <<>>
        /\ dj_nodes_visited = <<>>
        /\ bfs_result = NotCalled
        /\ dfs_result = NotCalled
        /\ dijkstra_result = NotCalled
        /\ num_nodes = n
        /\ probability = p
        /\ is_directed = d
        /\ i = 0
        /\ j = InnerStart(0, d)
        /\ draws = <<>>

NextRandom == RandomGraphDraw \/ RandomGraphNextI \/ RandomGraphReturn

SpecRandom == InitRandom /\ [][NextRandom]_vars

\* ------------------------------------------- the three algorithms, run on
\* The calls are synchronous and single-threaded (no suspension point): a
\* call that can take its next step takes it.
InitAlgorithms == InitTraverse \/ InitDijkstra

NextAlgorithms == NextTraverse \/ NextDijkstra

SpecAlgorithms ==
    InitAlgorithms /\ [][NextAlgorithms]_vars /\ WF_vars(NextAlgorithms)

\* ------------------------------------------------------ the whole library
Init == InitTraverse \/ InitDijkstra \/ InitRandom

Next == NextTraverse \/ NextDijkstra \/ NextRandom

Spec == Init /\ [][Next]_vars

\* ===================================================== reference notions
Range(seq) == {seq[k] : k \in 1..Len(seq)}

NoDuplicates(seq) == \A a, b \in 1..Len(seq) : seq[a] = seq[b] => a = b

Pos(seq, x) == CHOOSE k \in 1..Len(seq) : seq[k] = x

\* every adjacency entry names a node of the graph
WellFormed(g) ==
    \A u \in 0..(Len(g) - 1) : \A k \in 1..Len(Adj(g, u)) : Target(Adj(g, u)[k]) < Len(g)

Successors(g, S) ==
    UNION {{Target(Adj(g, u)[k]) : k \in 1..Len(Adj(g, u))} : u \in S}

RECURSIVE ReachFrom(_, _)
ReachFrom(g, S) ==
    LET T == S \cup Successors(g, S) IN IF T = S THEN S ELSE ReachFrom(g, T)

\* the nodes reachable from s along edges
Reachable(g, s) == ReachFrom(g, {s})

RECURSIVE HopFrom(_, _, _, _, _)
HopFrom(g, frontier, seen, d, v) ==
    IF v \in frontier THEN d
    ELSE IF frontier = {} THEN -1
    ELSE LET nxt == Successors(g, frontier) \ seen IN
         HopFrom(g, nxt, seen \cup nxt, d + 1, v)

\* the least number of edges on a path from s to v (-1: there is none)
HopDist(g, s, v) == HopFrom(g, {s}, {s}, 0, v)

ValidCall == WellFormed(graph) /\ starting_node < NumNodes(graph)

\* r is Ok with a sequence that starts at the start and lists exactly the
\* reachable nodes, each once
IsTraversal(r) ==
    /\ r.tag = "Ok"
    /\ Len(r.value) >= 1
    /\ r.value[1] = starting_node
    /\ NoDuplicates(r.value)
    /\ Range(r.value) = Reachable(graph, starting_node)

\* C1: on a graph whose targets are all < n and for a start < n, bfs and dfs
\* each return Ok with a sequence that begins with the start and holds every
\* reachable node exactly once and no other node; so the two node sets agree.
C1_Reachability ==
    ("bfs" \in calls /\ ValidCall) =>
        /\ bfs_result # NotCalled => IsTraversal(bfs_result)
        /\ dfs_result # NotCalled => IsTraversal(dfs_result)
        /\ (bfs_result.tag = "Ok" /\ dfs_result.tag = "Ok") =>
               Range(bfs_result.value) = Range(dfs_result.value)

C1_Witness ==
    /\ ValidCall
    /\ bfs_result.tag = "Ok"
    /\ dfs_result.tag = "Ok"
    /\ Len(bfs_result.value) >= 3
    /\ Len(bfs_result.value) < NumNodes(graph)

\* C3: for a start >= n (n = 0 included) bfs, dfs and dijkstra each return
\* Err(OutOfBoundsNode { node: start }) and no call ever sets up or touches
\* its working state; for a start < n none of them returns OutOfBoundsNode.
C3_OutOfBoundsStart ==
    "random_graph" \notin calls =>
        /\ starting_node >= NumNodes(graph) =>
              /\ \A r \in {bfs_result, dfs_result, dijkstra_result} :
                     r = NotCalled \/ r = Err(OutOfBoundsNode(starting_node))
              /\ pc = "ready"
              /\ nodes_left_to_process = <<>> /\ nodes_visited_lookup = <<>>
              /\ nodes_visited = <<>> /\ nodes_distance = <<>>
              /\ dj_nodes_visited = <<>>
        /\ starting_node < NumNodes(graph) =>
              \A r \in {bfs_result, dfs_result, dijkstra_result} :
                  r.tag = "Err" => r.error.kind # "OutOfBoundsNode"

C3_Witness ==
    /\ starting_node > NumNodes(graph)
    /\ bfs_result = Err(OutOfBoundsNode(starting_node))
    /\ dfs_result = Err(OutOfBoundsNode(starting_node))

\* C8, first half: in the sequence bfs returns, a node with a strictly smaller
\* hop distance from the start comes before a node with a larger one.
BfsLayered ==
    ("bfs" \in calls /\ ValidCall /\ bfs_result # NotCalled) =>
        /\ bfs_result.tag = "Ok"
        /\ \A a, b \in Range(bfs_result.value) :
               HopDist(graph, starting_node, a) < HopDist(graph, starting_node, b)
                   => Pos(bfs_result.value, a) < Pos(bfs_result.value, b)

\* the targets of nbrs that lookup has not marked, each once, in stored order
FirstNew(nbrs, lookup) ==
    LET keep == {k \in 1..Len(nbrs) :
                    /\ ~lookup[Target(nbrs[k]) + 1]
                    /\ \A m \in 1..(k - 1) : Target(nbrs[m]) # Target(nbrs[k])}
        RECURSIVE Take(_)
        Take(k) == IF k > Len(nbrs) THEN <<>>
                   ELSE IF k \in keep THEN <<Target(nbrs[k])>> \o Take(k + 1)
                   ELSE Take(k + 1)
    IN Take(1)

\* C8, second half: the scan of one dequeued node appends the neighbours it
\* newly discovers in the adjacency list's stored order.
BfsScanInOrder ==
    (pc = "bfs" /\ ValidCall /\ nodes_left_to_process # <<>>) =>
        nodes_visited' = nodes_visited \o
            FirstNew(Adj(graph, Head(nodes_left_to_process)), nodes_visited_lookup)

\* C8: the sequence bfs returns is ordered by BFS layer, and within the scan of
\* one dequeued node the new neighbours are appended in adjacency-list order.
C8_BfsOrder == []BfsLayered /\ [][BfsScanInOrder]_vars

C8_Witness ==
    /\ ValidCall
    /\ bfs_result.tag = "Ok"
    /\ Len(bfs_result.value) = 4
    /\ \E v \in Range(bfs_result.value) : HopDist(graph, starting_node, v) = 2

\* the naive recursive DFS: record a node when first visited, then recurse
\* into its unvisited neighbours in adjacency-list order
RECURSIVE RecVisit(_, _, _), RecNeighbours(_, _, _, _)
RecVisit(g, u, visited) == RecNeighbours(g, Adj(g, u), 1, Append(visited, u))
RecNeighbours(g, nbrs, k, visited) ==
    IF k > Len(nbrs) THEN visited
    ELSE IF Target(nbrs[k]) \in Range(visited)
    THEN RecNeighbours(g, nbrs, k + 1, visited)
    ELSE RecNeighbours(g, nbrs, k + 1, RecVisit(g, Target(nbrs[k]), visited))

\* C9: the explicit-stack dfs returns exactly the sequence of the naive
\* recursive DFS (same nodes, same order).
C9_DfsIsRecursiveDfs ==
    ("dfs" \in calls /\ ValidCall /\ dfs_result # NotCalled) =>
        dfs_result = Ok(RecVisit(graph, starting_node, <<>>))

C9_Witness ==
    /\ ValidCall
    /\ dfs_result.tag = "Ok"
    /\ bfs_result.tag = "Ok"
    /\ Len(dfs_result.value) = 4
    /\ dfs_result.value # bfs_result.value

\* ------------------------------------------------- shortest-path reference
SetMin(S) == CHOOSE x \in S : \A y \in S : x <= y

\* one round of relaxing every in-range edge, over the unbounded integers
RelaxRound(g, dist) ==
    [v \in 1..Len(g) |->
        LET via == UNION {{dist[u + 1][1] + Weight(Adj(g, u)[k]) :
                              k \in {m \in 1..Len(Adj(g, u)) :
                                        Target(Adj(g, u)[m]) = v - 1}} :
                          u \in {x \in 0..(Len(g) - 1) : dist[x + 1] # None}}
            all == via \cup (IF dist[v] # None THEN {dist[v][1]} ELSE {})
        IN IF all = {} THEN None ELSE Some(SetMin(all))]

RECURSIVE RelaxRounds(_, _, _)
RelaxRounds(g, dist, rounds) ==
    IF rounds = 0 THEN dist ELSE RelaxRounds(g, RelaxRound(g, dist), rounds - 1)

\* for every node, Some(least total weight of a path from s) or None
TrueDistances(g, s) ==
    RelaxRounds(g, [v \in 1..Len(g) |-> IF v = s + 1 THEN Some(0) ELSE None], Len(g))

IsOverflowErr(r) == r.tag = "Err" /\ r.error.kind = "DistanveOverflow"

\* C2: on a weighted graph with targets < n, a start < n and no relaxation
\* that overflows, dijkstra returns Ok(d) with d[start] = Some(0), d[v] =
\* Some(least total weight of a path to v) for reachable v and None exactly
\* for the unreachable v.
C2_ShortestPaths ==
    ("dijkstra" \in calls /\ ValidCall /\ dijkstra_result # NotCalled
        /\ ~IsOverflowErr(dijkstra_result)) =>
        /\ dijkstra_result = Ok(TrueDistances(graph, starting_node))
        /\ dijkstra_result.value[starting_node + 1] = Some(0)
        /\ \A v \in 0..(NumNodes(graph) - 1) :
               dijkstra_result.value[v + 1] = None
                   <=> v \notin Reachable(graph, starting_node)

C2_Witness ==
    /\ ValidCall
    /\ dijkstra_result.tag = "Ok"
    /\ \E k \in 1..Len(Adj(graph, starting_node)) :
          LET e == Adj(graph, starting_node)[k] IN
          /\ Target(e) # starting_node
          /\ dijkstra_result.value[Target(e) + 1][1] < Weight(e)

\* C4, the step: when an entry (v, w) of the selected node u, at distance d,
\* has d + w above the largest distance (and no earlier entry of u stopped the
\* call), the call returns DistanveOverflow { u, v, d, w } in that very step.
OverflowReturnsAtOnce ==
    (pc = "dijkstra" /\ Candidates(nodes_distance, dj_nodes_visited) # {}) =>
        LET u == MinByKey(nodes_distance, Candidates(nodes_distance, dj_nodes_visited))
            d == nodes_distance[u + 1][1]
            nbrs == Adj(graph, u)
            over == {k \in 1..Len(nbrs) : d + Weight(nbrs[k]) > U32_MAX}
        IN (/\ over # {}
            /\ \A m \in 1..(SetMin(over) - 1) : Target(nbrs[m]) < NumNodes(graph))
           => /\ dijkstra_result' =
                     Err(DistanveOverflow(u, Target(nbrs[SetMin(over)]), d,
                                          Weight(nbrs[SetMin(over)])))
              /\ pc' = "ready"

\* C4, the stores: a distance written by a step is the exact sum d + w of an
\* entry (v, w) of the selected node u, never that sum reduced mod 2^width.
StoresExactSums ==
    (pc = "dijkstra" /\ Candidates(nodes_distance, dj_nodes_visited) # {}) =>
        LET u == MinByKey(nodes_distance, Candidates(nodes_distance, dj_nodes_visited))
            d == nodes_distance[u + 1][1]
            nbrs == Adj(graph, u)
        IN \A v \in 1..Len(nodes_distance) :
               nodes_distance'[v] # nodes_distance[v] =>
                   \E k \in 1..Len(nbrs) :
                       /\ Target(nbrs[k]) = v - 1
                       /\ nodes_distance'[v] = Some(d + Weight(nbrs[k]))

\* C4, the result: an Ok result leaves no entry whose relaxation overflows
\* behind any node that has a distance.
NoOkAfterOverflow ==
    ("dijkstra" \in calls /\ dijkstra_result.tag = "Ok") =>
        \A u \in 0..(NumNodes(graph) - 1) :
            dijkstra_result.value[u + 1] # None =>
                \A k \in 1..Len(Adj(graph, u)) :
                    dijkstra_result.value[u + 1][1] + Weight(Adj(graph, u)[k])
                        <= U32_MAX

\* C4: a relaxation whose sum exceeds the largest distance returns the
\* overflow error at once, naming u, v, d and w; no wrapped distance is
\* stored and no Ok follows such an entry.
C4_OverflowIsError ==
    []NoOkAfterOverflow /\ [][OverflowReturnsAtOnce /\ StoresExactSums]_vars

C4_Witness ==
    /\ IsOverflowErr(dijkstra_result)
    /\ dijkstra_result.error.node_from # starting_node
    /\ dijkstra_result.error.current_distance > 0
    /\ dijkstra_result.error.edge_weight < U32_MAX

\* C5: a call started from a valid start that consumes an adjacency entry
\* whose target is >= n reports it as a typed error: it never panics.
C5_OutOfRangeTargetIsTypedError ==
    "random_graph" \notin calls =>
        /\ pc # "panicked"
        /\ \A r \in {bfs_result, dfs_result, dijkstra_result} : r.tag # "Panic"

\* --------------------------------------------------------- random_graph
\* C6: the graph random_graph returns for is_directed = false is symmetric:
\* every edge (u, v, w) of edges() has its mirror (v, u, w), same weight.
C6_UndirectedSymmetry ==
    (pc = "generated" /\ ~is_directed) =>
        \A e \in Range(edges(graph)) : <<e[2], e[1], e[3]>> \in Range(edges(graph))

C6_Witness ==
    /\ pc = "generated"
    /\ ~is_directed
    /\ variant = "Weighted"
    /\ Len(edges(graph)) >= 4
    /\ \E a, b \in Range(edges(graph)) : a[3] # b[3]

\* C7: random_graph never reaches insert_edge's panic and returns a graph of
\* exactly num_nodes nodes whose edges (u, v, w) have u < n, v < n and, for
\* Weighted, 1 <= w <= 10.
C7_GeneratedInBounds ==
    "random_graph" \in calls =>
        /\ pc # "panicked"
        /\ pc = "generated" =>
              /\ NumNodes(graph) = num_nodes
              /\ \A e \in Range(edges(graph)) :
                     /\ e[1] < num_nodes
                     /\ e[2] < num_nodes
                     /\ variant = "Weighted" => (1 <= e[3] /\ e[3] <= 10)

C7_Witness ==
    /\ pc = "generated"
    /\ variant = "Weighted"
    /\ is_directed
    /\ \E a, b \in Range(edges(graph)) : a[3] = 1 /\ b[3] = 10

\* C10: random_graph draws once, and inserts at most one edge i -> j, for
\* each pair of distinct nodes (i < j only when undirected) and for no other
\* pair: no (i, i) is drawn and the graph has no self-loop.
C10_DistinctPairsOnly ==
    pc = "generated" =>
        /\ NoDuplicates(draws)
        /\ Range(draws) =
               {q \in (0..(num_nodes - 1)) \X (0..(num_nodes - 1)) :
                   IF is_directed THEN q[1] # q[2] ELSE q[1] < q[2]}
        /\ \A a, b \in 1..Len(edges(graph)) :
               (edges(graph)[a][1] = edges(graph)[b][1]
                   /\ edges(graph)[a][2] = edges(graph)[b][2]) => a = b
        /\ \A e \in Range(edges(graph)) : e[1] # e[2]

\* ------------------------------------------------------ overflow, exactly
\* some node u reachable from s has an entry (v, w) whose sum with u's true
\* shortest distance exceeds the largest distance
OverflowingEdge(g, s) ==
    LET td == TrueDistances(g, s) IN
    \E u \in 0..(Len(g) - 1) :
        /\ td[u + 1] # None
        /\ \E k \in 1..Len(Adj(g, u)) : td[u + 1][1] + Weight(Adj(g, u)[k]) > U32_MAX

\* C12: on a weighted graph with targets < n and a start < n, dijkstra returns
\* the overflow error if and only if a reachable node u has an entry (u, v, w)
\* with (true shortest distance of u) + w above the largest distance, whether
\* or not v already has a smaller distance; in every other case it returns Ok.
C12_OverflowExactly ==
    ("dijkstra" \in calls /\ ValidCall /\ dijkstra_result # NotCalled) =>
        IF OverflowingEdge(graph, starting_node)
        THEN IsOverflowErr(dijkstra_result)
        ELSE dijkstra_result.tag = "Ok"

\* the call fails on an entry towards an already settled node although every
\* node's true shortest distance fits the distance type
C12_Witness ==
    /\ ValidCall
    /\ IsOverflowErr(dijkstra_result)
    /\ dj_nodes_visited[dijkstra_result.error.node_to + 1]
    /\ LET td == TrueDistances(graph, starting_node) IN
       \A v \in 1..Len(td) : td[v] # None /\ td[v][1] <= U32_MAX

\* ------------------------------------------------------------ termination
\* the elements a step appended to seq
Appended(seq, seq2) == SubSeq(seq2, Len(seq) + 1, Len(seq2))

IsPrefix(seq, seq2) == Len(seq) <= Len(seq2) /\ SubSeq(seq2, 1, Len(seq)) = seq

\* one bfs iteration dequeues the head and enqueues only nodes that were not
\* marked before, each once, marking them; with an empty queue the call returns
BfsStepBounded ==
    pc = "bfs" =>
        IF nodes_left_to_process = <<>>
        THEN pc' = "ready" /\ bfs_result' = Ok(nodes_visited)
        ELSE LET new == Appended(nodes_visited, nodes_visited') IN
             /\ IsPrefix(nodes_visited, nodes_visited')
             /\ nodes_left_to_process' = Tail(nodes_left_to_process) \o new
             /\ NoDuplicates(new)
             /\ \A k \in 1..Len(new) :
                    /\ ~nodes_visited_lookup[new[k] + 1]
                    /\ nodes_visited_lookup'[new[k] + 1]
             /\ bfs_result' = NotCalled

\* one dfs iteration either pushes one node that was not marked before, marking
\* it, or pops the top of the stack; with an empty stack the call returns
DfsStepBounded ==
    pc = "dfs" =>
        IF nodes_left_to_process = <<>>
        THEN pc' = "ready" /\ dfs_result' = Ok(nodes_visited)
        ELSE /\ \/ \E n \in 0..(NumNodes(graph) - 1) :
                      /\ ~nodes_visited_lookup[n + 1]
                      /\ nodes_visited_lookup'[n + 1]
                      /\ nodes_left_to_process' = Append(nodes_left_to_process, n)
                      /\ nodes_visited' = Append(nodes_visited, n)
                \/ /\ nodes_left_to_process' =
                          SubSeq(nodes_left_to_process, 1, Len(nodes_left_to_process) - 1)
                   /\ nodes_visited' = nodes_visited
                   /\ nodes_visited_lookup' = nodes_visited_lookup
             /\ dfs_result' = NotCalled

\* one dijkstra iteration that does not end the call settles exactly one node
\* that was unsettled and had a distance; the call returns Ok exactly when no
\* unsettled node has a distance
DijkstraStepBounded ==
    pc = "dijkstra" =>
        IF Candidates(nodes_distance, dj_nodes_visited) = {}
        THEN pc' = "ready" /\ dijkstra_result' = Ok(nodes_distance)
        ELSE /\ dijkstra_result'.tag # "Ok"
             /\ pc' = "dijkstra" =>
                    \E u \in Candidates(nodes_distance, dj_nodes_visited) :
                        dj_nodes_visited' = [dj_nodes_visited EXCEPT ![u + 1] = TRUE]

\* no node is ever in the result, the queue or the stack twice
NoNodeTwice ==
    (ValidCall /\ pc \in {"bfs", "dfs"}) =>
        /\ NoDuplicates(nodes_visited)
        /\ NoDuplicates(nodes_left_to_process)
        /\ Range(nodes_left_to_process) \subseteq Range(nodes_visited)

\* a running call is a call that has returned later on
RunningCallReturns ==
    /\ (ValidCall /\ pc = "bfs") ~> (bfs_result.tag = "Ok")
    /\ (ValidCall /\ pc = "dfs") ~> (dfs_result.tag = "Ok")
    /\ (ValidCall /\ pc = "dijkstra") ~> (dijkstra_result.tag \in {"Ok", "Err"})

\* C11: on a finite graph with targets < n and a start < n, bfs, dfs and
\* dijkstra each terminate: bfs enqueues every node at most once and stops when
\* the queue is empty, every dfs iteration pushes a newly visited node or pops
\* the top, pushing every node at most once, and dijkstra settles every node at
\* most once and stops when no unsettled node has a distance.
C11_Termination ==
    /\ []NoNodeTwice
    /\ [][ValidCall => (BfsStepBounded /\ DfsStepBounded /\ DijkstraStepBounded)]_vars
    /\ RunningCallReturns

C11_Witness ==
    /\ ValidCall
    /\ bfs_result.tag = "Ok"
    /\ dfs_result.tag = "Ok"
    /\ Len(dfs_result.value) = NumNodes(graph)
    /\ NumNodes(graph) >= 3
    /\ \E u \in 0..(NumNodes(graph) - 1) : \E k \in 1..Len(Adj(graph, u)) :
           Target(Adj(graph, u)[k]) = starting_node /\ u # starting_node

====
